---- MODULE Spec2Model ----
(***************************************************************************)
(* Model of IncrementalSorter (src/src/lib.rs): an incremental, in-place,  *)
(* least-significant-bit-first binary radix sort over usize keys, driven   *)
(* by prepare(), repeated sort() calls and get_result().                   *)
(*                                                                         *)
(* One action models one whole public call.  A panic is recorded in        *)
(* `failure`; after a panic the instance is dead and no further call is    *)
(* made on it.  Indexes (loop_index, the entries of new_indexes) keep the  *)
(* source's 0-based values; sequences are accessed at index + 1.           *)
(***************************************************************************)
EXTENDS Integers, Sequences, FiniteSets

\* ---------------------------------------------------------------- bounds
MaxLen == 3
MaxKey == 3
MaxBudget == 3

\* ------------------------------------------------------ program constants
\* usize::min_value().count_zeros() + count_ones(): the key width in bits.
total_bits == 64
\* digit_index and max_digit_index are u8: their values are below 2^8.
u8_range == 256

VARIABLES
    input,                \* the vector handed to new(), kept for reference
    debug_build,          \* build profile: TRUE = overflow checks and debug assertions on
    iterations_per_call,
    to_sort,
    state,
    max_digit_index,
    digit_index,
    new_indexes,
    loop_index,
    true_count,
    false_count,
    accumulator,
    failure,              \* "none", or the kind of panic that killed the instance
    extracted,            \* get_result() has consumed the instance
    call,                 \* the last public call made: "new", "prepare", "sort", "get_result"
    ret,                  \* what the last returning sort() call returned: "none", "true", "false"
    pass_start,           \* to_sort as it stood when the current digit pass began
    assigned,             \* new_indexes as it stood when MoveItems was entered
    last_phase,           \* the state in which the last call found the sorter
    last_scanned,         \* elements scanned by the last sort() call
    last_swaps,           \* swaps of two distinct positions done by the last sort() call
    last_iters,           \* loop iterations of move_items run by the last sort() call
    pass_swaps,           \* swaps of two distinct positions done so far by this pass's MoveItems
    pass_advances         \* cursor advances done so far by this pass's MoveItems

vars == <<input, debug_build, iterations_per_call, to_sort, state, max_digit_index,
          digit_index, new_indexes, loop_index, true_count, false_count, accumulator,
          failure, extracted, call, ret, pass_start, assigned,
          last_phase, last_scanned, last_swaps, last_iters, pass_swaps, pass_advances>>

sorter == <<to_sort, state, max_digit_index, digit_index, new_indexes, loop_index,
            true_count, false_count, accumulator>>

config == <<input, debug_build, iterations_per_call>>

history == <<pass_start, assigned, last_scanned, last_swaps, last_iters,
             pass_swaps, pass_advances>>

\* ------------------------------------------------------------ arithmetic
Min(a, b) == IF a < b THEN a ELSE b

RECURSIVE Pow2(_)
Pow2(n) == IF n = 0 THEN 1 ELSE 2 * Pow2(n - 1)

\* Number of significant bits of itm (0 for itm = 0).
RECURSIVE bit_length(_)
bit_length(itm) == IF itm = 0 THEN 0 ELSE 1 + bit_length(itm \div 2)

\* usize::leading_zeros
leading_zeros(itm) == total_bits - bit_length(itm)

\* self.to_sort.iter().map(|itm| itm.leading_zeros()).min(); defined for a non-empty s.
fewest_leading_zeros(s) ==
    CHOOSE m \in {leading_zeros(s[i]) : i \in 1..Len(s)} :
        \A i \in 1..Len(s) : m <= leading_zeros(s[i])

\* Mutant: the bit count taken one too small.
prepared_max_digit_index_short(s) == (total_bits - fewest_leading_zeros(s) - 1) % u8_range

\* (total_bits - fewest_leading_zeros) as u8
prepared_max_digit_index(s) == (total_bits - fewest_leading_zeros(s)) % u8_range

\* `1 << idx` on usize overflows when idx is not below the key width: with
\* overflow checks it panics, without them the shift amount is masked.
shift_overflows(idx) == idx >= total_bits

\* Mutant: the mask shifted one bit too far.
get_bit_next(idx, itm) ==
    LET s == (idx + 1) % total_bits
    IN  IF s > 30 THEN FALSE ELSE (itm \div Pow2(s)) % 2 = 1

\* get_bit when it does not panic: itm & (1 << (idx mod total_bits)) != 0.
\* Every key this model can hold is below 2^31, so bits 31 and up are 0.
get_bit(idx, itm) ==
    LET s == idx % total_bits
    IN  IF s > 30 THEN FALSE ELSE (itm \div Pow2(s)) % 2 = 1

\* Mutant: a swap without the temporary, position i is overwritten and j kept.
swap_lossy(s, i, j) == [s EXCEPT ![i + 1] = s[j + 1]]

\* slice.swap(i, j), on 0-based positions
swap(s, i, j) == [s EXCEPT ![i + 1] = s[j + 1], ![j + 1] = s[i + 1]]

\* ------------------------------------------------------------ the phases
\* Mutant: the window one element wider than the budget.
scan_stop_wide(start) == Min(start + iterations_per_call + 1, Len(to_sort))

\* cmp::min(start + self.iterations_per_call, self.to_sort.len())
scan_stop(start) == Min(start + iterations_per_call, Len(to_sort))

\* Mutant: the filter without its negation, the keys with the bit set are counted.
bucket_counts_ones ==
    LET idx   == digit_index
        start == loop_index
        stop  == scan_stop(start)
        count == Cardinality({i \in (start + 1)..stop : get_bit(idx, to_sort[i])})
    IN  IF start > stop \/ stop > Len(to_sort)
        THEN [failure |-> "index_out_of_bounds", accumulator |-> accumulator,
              loop_index |-> loop_index, done |-> FALSE, scanned |-> 0]
        ELSE IF debug_build /\ start < stop /\ shift_overflows(idx)
        THEN [failure |-> "shift_overflow", accumulator |-> accumulator,
              loop_index |-> loop_index, done |-> FALSE, scanned |-> 0]
        ELSE [failure |-> "none", accumulator |-> accumulator + count,
              loop_index |-> stop, done |-> (stop = Len(to_sort)),
              scanned |-> stop - start]

\* bucket_counts(): adds to the accumulator the number of keys of the window
\* to_sort[start..stop] whose bit digit_index is 0.
bucket_counts ==
    LET idx   == digit_index
        start == loop_index
        stop  == scan_stop(start)
        count == Cardinality({i \in (start + 1)..stop : ~get_bit(idx, to_sort[i])})
    IN  IF start > stop \/ stop > Len(to_sort)
        THEN [failure |-> "index_out_of_bounds", accumulator |-> accumulator,
              loop_index |-> loop_index, done |-> FALSE, scanned |-> 0]
        ELSE IF debug_build /\ start < stop /\ shift_overflows(idx)
        THEN [failure |-> "shift_overflow", accumulator |-> accumulator,
              loop_index |-> loop_index, done |-> FALSE, scanned |-> 0]
        ELSE [failure |-> "none", accumulator |-> accumulator + count,
              loop_index |-> stop, done |-> (stop = Len(to_sort)),
              scanned |-> stop - start]

\* Mutant: the bucket test inverted, keys with the bit clear go to the true bin.
RECURSIVE compute_indexes_loop_inverted(_, _, _, _, _)
compute_indexes_loop_inverted(i, stop, ni, tc, fc) ==
    IF i >= stop
    THEN [failure |-> "none", new_indexes |-> ni, true_count |-> tc, false_count |-> fc]
    ELSE IF debug_build /\ shift_overflows(digit_index)
    THEN [failure |-> "shift_overflow", new_indexes |-> ni, true_count |-> tc,
          false_count |-> fc]
    ELSE IF ~get_bit(digit_index, to_sort[i + 1])
    THEN compute_indexes_loop_inverted(i + 1, stop, Append(ni, tc), tc + 1, fc)
    ELSE IF debug_build /\ ~(fc < accumulator)
    THEN [failure |-> "debug_assert", new_indexes |-> ni, true_count |-> tc,
          false_count |-> fc]
    ELSE compute_indexes_loop_inverted(i + 1, stop, Append(ni, fc), tc, fc + 1)

\* The loop of compute_indexes() over to_sort[i..stop] (0-based, stop excluded).
RECURSIVE compute_indexes_loop(_, _, _, _, _)
compute_indexes_loop(i, stop, ni, tc, fc) ==
    IF i >= stop
    THEN [failure |-> "none", new_indexes |-> ni, true_count |-> tc, false_count |-> fc]
    ELSE IF debug_build /\ shift_overflows(digit_index)
    THEN [failure |-> "shift_overflow", new_indexes |-> ni, true_count |-> tc,
          false_count |-> fc]
    ELSE IF get_bit(digit_index, to_sort[i + 1])
    THEN compute_indexes_loop(i + 1, stop, Append(ni, tc), tc + 1, fc)
    ELSE IF debug_build /\ ~(fc < accumulator)
    THEN [failure |-> "debug_assert", new_indexes |-> ni, true_count |-> tc,
          false_count |-> fc]
    ELSE compute_indexes_loop(i + 1, stop, Append(ni, fc), tc, fc + 1)

\* compute_indexes(): pushes the target index of every key of the window.
compute_indexes ==
    LET start == loop_index
        stop  == scan_stop(start)
        r     == compute_indexes_loop(start, stop, new_indexes, true_count, false_count)
    IN  IF start > stop \/ stop > Len(to_sort)
        THEN [failure |-> "index_out_of_bounds", new_indexes |-> new_indexes,
              true_count |-> true_count, false_count |-> false_count,
              loop_index |-> loop_index, done |-> FALSE, scanned |-> 0]
        ELSE [failure |-> r.failure, new_indexes |-> r.new_indexes,
              true_count |-> r.true_count, false_count |-> r.false_count,
              loop_index |-> stop, done |-> (stop = Len(to_sort)),
              scanned |-> stop - start]

\* Mutant: a cursor advance uses none of the budget, only swaps count.
RECURSIVE move_items_loop_free(_, _, _, _, _, _)
move_items_loop_free(k, ts, ni, li, sw, it) ==
    IF k = 0
    THEN [failure |-> "none", done |-> FALSE, to_sort |-> ts, new_indexes |-> ni,
          loop_index |-> li, swaps |-> sw, iters |-> it]
    ELSE IF li >= Len(ni)
    THEN [failure |-> "index_out_of_bounds", done |-> FALSE, to_sort |-> ts,
          new_indexes |-> ni, loop_index |-> li, swaps |-> sw, iters |-> it]
    ELSE LET idx     == li
             placed  == ni[idx + 1] = idx
             li2     == IF placed THEN li + 1 ELSE li
             correct == ni[idx + 1]
         IN  IF placed /\ li2 = Len(ts)
             THEN [failure |-> "none", done |-> TRUE, to_sort |-> ts,
                   new_indexes |-> ni, loop_index |-> li2, swaps |-> sw,
                   iters |-> it + 1]
             ELSE IF idx >= Len(ts) \/ correct >= Len(ts)
             THEN [failure |-> "index_out_of_bounds", done |-> FALSE, to_sort |-> ts,
                   new_indexes |-> ni, loop_index |-> li2, swaps |-> sw,
                   iters |-> it + 1]
             ELSE move_items_loop_free(IF placed THEN k ELSE k - 1,
                                       swap(ts, idx, correct), swap(ni, idx, correct),
                                       li2, IF idx = correct THEN sw ELSE sw + 1, it + 1)

\* Mutant: the keys are swapped and their target indexes are not.
RECURSIVE move_items_loop_half(_, _, _, _, _, _)
move_items_loop_half(k, ts, ni, li, sw, it) ==
    IF k = 0
    THEN [failure |-> "none", done |-> FALSE, to_sort |-> ts, new_indexes |-> ni,
          loop_index |-> li, swaps |-> sw, iters |-> it]
    ELSE IF li >= Len(ni)
    THEN [failure |-> "index_out_of_bounds", done |-> FALSE, to_sort |-> ts,
          new_indexes |-> ni, loop_index |-> li, swaps |-> sw, iters |-> it]
    ELSE LET idx     == li
             placed  == ni[idx + 1] = idx
             li2     == IF placed THEN li + 1 ELSE li
             correct == ni[idx + 1]
         IN  IF placed /\ li2 = Len(ts)
             THEN [failure |-> "none", done |-> TRUE, to_sort |-> ts,
                   new_indexes |-> ni, loop_index |-> li2, swaps |-> sw,
                   iters |-> it + 1]
             ELSE IF idx >= Len(ts) \/ correct >= Len(ts)
             THEN [failure |-> "index_out_of_bounds", done |-> FALSE, to_sort |-> ts,
                   new_indexes |-> ni, loop_index |-> li2, swaps |-> sw,
                   iters |-> it + 1]
             ELSE move_items_loop_half(k - 1, swap(ts, idx, correct), ni,
                                  li2, IF idx = correct THEN sw ELSE sw + 1, it + 1)

\* The loop of move_items() with k iterations left.  An element found in place
\* advances the cursor and, unless the cursor reached the end, the iteration
\* goes on to swap the position with itself.
RECURSIVE move_items_loop(_, _, _, _, _, _)
move_items_loop(k, ts, ni, li, sw, it) ==
    IF k = 0
    THEN [failure |-> "none", done |-> FALSE, to_sort |-> ts, new_indexes |-> ni,
          loop_index |-> li, swaps |-> sw, iters |-> it]
    ELSE IF li >= Len(ni)
    THEN [failure |-> "index_out_of_bounds", done |-> FALSE, to_sort |-> ts,
          new_indexes |-> ni, loop_index |-> li, swaps |-> sw, iters |-> it]
    ELSE LET idx     == li
             placed  == ni[idx + 1] = idx
             li2     == IF placed THEN li + 1 ELSE li
             correct == ni[idx + 1]
         IN  IF placed /\ li2 = Len(ts)
             THEN [failure |-> "none", done |-> TRUE, to_sort |-> ts,
                   new_indexes |-> ni, loop_index |-> li2, swaps |-> sw,
                   iters |-> it + 1]
             ELSE IF idx >= Len(ts) \/ correct >= Len(ts)
             THEN [failure |-> "index_out_of_bounds", done |-> FALSE, to_sort |-> ts,
                   new_indexes |-> ni, loop_index |-> li2, swaps |-> sw,
                   iters |-> it + 1]
             ELSE move_items_loop(k - 1, swap(ts, idx, correct), swap(ni, idx, correct),
                                  li2, IF idx = correct THEN sw ELSE sw + 1, it + 1)

\* Mutant: one loop iteration too many.
move_items_budget_extra == iterations_per_call + 1

\* for _ in 0..self.iterations_per_call
move_items_budget == iterations_per_call

\* move_items()
move_items == move_items_loop(move_items_budget, to_sort, new_indexes, loop_index, 0, 0)

\* ------------------------------------------------------------- the calls
Keys == 0..MaxKey

Inputs == UNION {[1..n -> Keys] : n \in 0..MaxLen}

\* new() / with_iterations_per_call()
Init ==
    /\ input \in Inputs
    /\ debug_build \in BOOLEAN
    /\ iterations_per_call \in 1..MaxBudget
    /\ to_sort = input
    /\ state = "Unprepared"
    /\ new_indexes = <<>>
    /\ max_digit_index = 0
    /\ digit_index = 0
    /\ loop_index = 0
    /\ accumulator = 0
    /\ true_count = 0
    /\ false_count = 0
    /\ failure = "none"
    /\ extracted = FALSE
    /\ call = "new"
    /\ ret = "none"
    /\ pass_start = input
    /\ assigned = <<>>
    /\ last_phase = "none"
    /\ last_scanned = 0
    /\ last_swaps = 0
    /\ last_iters = 0
    /\ pass_swaps = 0
    /\ pass_advances = 0

\* A call can be made: no earlier call panicked and the instance was not consumed.
usable == failure = "none" /\ ~extracted

\* The instance dies with a panic of the given kind.
panic(kind) == failure' = kind /\ UNCHANGED <<sorter, ret, history>>

\* prepare()
prepare ==
    /\ usable
    /\ call' = "prepare"
    /\ last_phase' = state
    /\ IF state = "Unprepared"
       THEN IF Len(to_sort) = 0
            THEN panic("unwrap_none")
            ELSE /\ max_digit_index' = prepared_max_digit_index(to_sort)
                 /\ state' = "Counting"
                 /\ UNCHANGED <<to_sort, digit_index, new_indexes, loop_index,
                                true_count, false_count, accumulator,
                                failure, ret, history>>
       ELSE panic("usage")
    /\ UNCHANGED <<config, extracted>>

\* Mutant: the true bin is not moved to start after the false bin.
sort_Counting_no_offset ==
    /\ usable
    /\ state = "Counting"
    /\ call' = "sort"
    /\ last_phase' = state
    /\ LET r == bucket_counts
       IN  IF r.failure # "none"
           THEN panic(r.failure)
           ELSE /\ accumulator' = r.accumulator
                /\ IF r.done
                   THEN /\ state' = "ComputeIndexes"
                        /\ loop_index' = 0
                        /\ false_count' = 0
                        /\ true_count' = 0
                   ELSE /\ loop_index' = r.loop_index
                        /\ UNCHANGED <<state, false_count, true_count>>
                /\ ret' = "false"
                /\ last_scanned' = r.scanned
                /\ last_swaps' = 0
                /\ last_iters' = 0
                /\ UNCHANGED <<to_sort, max_digit_index, digit_index, new_indexes,
                               failure, pass_start, assigned, pass_swaps,
                               pass_advances>>
    /\ UNCHANGED <<config, extracted>>

\* sort(), Counting arm
sort_Counting ==
    /\ usable
    /\ state = "Counting"
    /\ call' = "sort"
    /\ last_phase' = state
    /\ LET r == bucket_counts
       IN  IF r.failure # "none"
           THEN panic(r.failure)
           ELSE /\ accumulator' = r.accumulator
                /\ IF r.done
                   THEN /\ state' = "ComputeIndexes"
                        /\ loop_index' = 0
                        /\ false_count' = 0
                        /\ true_count' = r.accumulator
                   ELSE /\ loop_index' = r.loop_index
                        /\ UNCHANGED <<state, false_count, true_count>>
                /\ ret' = "false"
                /\ last_scanned' = r.scanned
                /\ last_swaps' = 0
                /\ last_iters' = 0
                /\ UNCHANGED <<to_sort, max_digit_index, digit_index, new_indexes,
                               failure, pass_start, assigned, pass_swaps,
                               pass_advances>>
    /\ UNCHANGED <<config, extracted>>

\* Mutant: the ComputeIndexes arm already moves the first key when it completes.
sort_ComputeIndexes_eager ==
    /\ usable
    /\ state = "ComputeIndexes"
    /\ call' = "sort"
    /\ last_phase' = state
    /\ LET r == compute_indexes
       IN  IF r.failure # "none"
           THEN panic(r.failure)
           ELSE IF r.done /\ debug_build /\ Len(r.new_indexes) # Len(to_sort)
           THEN panic("debug_assert")
           ELSE /\ new_indexes' = r.new_indexes
                /\ true_count' = r.true_count
                /\ false_count' = r.false_count
                /\ IF r.done
                   THEN /\ state' = "MoveItems"
                        /\ loop_index' = 0
                        /\ assigned' = r.new_indexes
                        /\ to_sort' = swap(to_sort, 0, r.new_indexes[1])
                        /\ pass_swaps' = 0
                        /\ pass_advances' = 0
                   ELSE /\ loop_index' = r.loop_index
                        /\ UNCHANGED <<to_sort, state, assigned, pass_swaps,
                                       pass_advances>>
                /\ ret' = "false"
                /\ last_scanned' = r.scanned
                /\ last_swaps' = 0
                /\ last_iters' = 0
                /\ UNCHANGED <<max_digit_index, digit_index, accumulator,
                               failure, pass_start>>
    /\ UNCHANGED <<config, extracted>>

\* sort(), ComputeIndexes arm
sort_ComputeIndexes ==
    /\ usable
    /\ state = "ComputeIndexes"
    /\ call' = "sort"
    /\ last_phase' = state
    /\ LET r == compute_indexes
       IN  IF r.failure # "none"
           THEN panic(r.failure)
           ELSE IF r.done /\ debug_build /\ Len(r.new_indexes) # Len(to_sort)
           THEN panic("debug_assert")
           ELSE /\ new_indexes' = r.new_indexes
                /\ true_count' = r.true_count
                /\ false_count' = r.false_count
                /\ IF r.done
                   THEN /\ state' = "MoveItems"
                        /\ loop_index' = 0
                        /\ assigned' = r.new_indexes
                        /\ pass_swaps' = 0
                        /\ pass_advances' = 0
                   ELSE /\ loop_index' = r.loop_index
                        /\ UNCHANGED <<state, assigned, pass_swaps, pass_advances>>
                /\ ret' = "false"
                /\ last_scanned' = r.scanned
                /\ last_swaps' = 0
                /\ last_iters' = 0
                /\ UNCHANGED <<to_sort, max_digit_index, digit_index, accumulator,
                               failure, pass_start>>
    /\ UNCHANGED <<config, extracted>>

\* Mutant: the MoveItems arm reports completion at the end of every digit pass.
sort_MoveItems_eager ==
    /\ usable
    /\ state = "MoveItems"
    /\ call' = "sort"
    /\ last_phase' = state
    /\ LET r == move_items
       IN  IF r.failure # "none"
           THEN panic(r.failure)
           ELSE IF r.done /\ debug_build /\ digit_index + 1 >= u8_range
           THEN panic("add_overflow")
           ELSE /\ to_sort' = r.to_sort
                /\ last_scanned' = 0
                /\ last_swaps' = r.swaps
                /\ last_iters' = r.iters
                /\ pass_swaps' = pass_swaps + r.swaps
                /\ pass_advances' = pass_advances + (r.loop_index - loop_index)
                /\ IF ~r.done
                   THEN /\ new_indexes' = r.new_indexes
                        /\ loop_index' = r.loop_index
                        /\ ret' = "false"
                        /\ UNCHANGED <<state, digit_index, accumulator, pass_start>>
                   ELSE /\ digit_index' = (digit_index + 1) % u8_range
                        /\ IF digit_index' = max_digit_index
                           THEN /\ state' = "Finished"
                                /\ new_indexes' = r.new_indexes
                                /\ loop_index' = r.loop_index
                                /\ ret' = "true"
                                /\ UNCHANGED <<accumulator, pass_start>>
                           ELSE /\ state' = "Counting"
                                /\ new_indexes' = <<>>
                                /\ loop_index' = 0
                                /\ accumulator' = 0
                                /\ ret' = "true"
                                /\ pass_start' = r.to_sort
                /\ UNCHANGED <<max_digit_index, true_count, false_count, failure,
                               assigned>>
    /\ UNCHANGED <<config, extracted>>

\* sort(), MoveItems arm
sort_MoveItems ==
    /\ usable
    /\ state = "MoveItems"
    /\ call' = "sort"
    /\ last_phase' = state
    /\ LET r == move_items
       IN  IF r.failure # "none"
           THEN panic(r.failure)
           ELSE IF r.done /\ debug_build /\ digit_index + 1 >= u8_range
           THEN panic("add_overflow")
           ELSE /\ to_sort' = r.to_sort
                /\ last_scanned' = 0
                /\ last_swaps' = r.swaps
                /\ last_iters' = r.iters
                /\ pass_swaps' = pass_swaps + r.swaps
                /\ pass_advances' = pass_advances + (r.loop_index - loop_index)
                /\ IF ~r.done
                   THEN /\ new_indexes' = r.new_indexes
                        /\ loop_index' = r.loop_index
                        /\ ret' = "false"
                        /\ UNCHANGED <<state, digit_index, accumulator, pass_start>>
                   ELSE /\ digit_index' = (digit_index + 1) % u8_range
                        /\ IF digit_index' = max_digit_index
                           THEN /\ state' = "Finished"
                                /\ new_indexes' = r.new_indexes
                                /\ loop_index' = r.loop_index
                                /\ ret' = "true"
                                /\ UNCHANGED <<accumulator, pass_start>>
                           ELSE /\ state' = "Counting"
                                /\ new_indexes' = <<>>
                                /\ loop_index' = 0
                                /\ accumulator' = 0
                                /\ ret' = "false"
                                /\ pass_start' = r.to_sort
                /\ UNCHANGED <<max_digit_index, true_count, false_count, failure,
                               assigned>>
    /\ UNCHANGED <<config, extracted>>

\* Mutant: sort() outside the sorting states returns instead of panicking.
sort_default_silent ==
    /\ usable
    /\ state \in {"Unprepared", "Finished"}
    /\ call' = "sort"
    /\ last_phase' = state
    /\ ret' = IF state = "Finished" THEN "true" ELSE "false"
    /\ UNCHANGED <<config, extracted, sorter, failure, history>>

\* sort(), the `_` arm: Unprepared or Finished
sort_default ==
    /\ usable
    /\ state \in {"Unprepared", "Finished"}
    /\ call' = "sort"
    /\ last_phase' = state
    /\ panic("usage")
    /\ UNCHANGED <<config, extracted>>

\* sort()
sort == sort_ComputeIndexes \/ sort_MoveItems \/ sort_Counting \/ sort_default

\* get_result(): consumes the instance and hands out to_sort, in any state.
get_result ==
    /\ usable
    /\ call' = "get_result"
    /\ last_phase' = state
    /\ extracted' = TRUE
    /\ UNCHANGED <<config, sorter, failure, ret, history>>

Next == prepare \/ sort \/ get_result

Spec == Init /\ [][Next]_vars

\* ------------------------------------------------------------ references
\* Panics that a call-order violation causes; every other panic is caused by
\* the data or the build.
UsageFailures == {"usage"}

NonDecreasing(s) == \A i \in 1..Len(s), j \in 1..Len(s) : i < j => s[i] <= s[j]

Occurrences(s, k) == Cardinality({i \in 1..Len(s) : s[i] = k})

\* t holds the same keys as s, each as many times.
PermutationOf(t, s) ==
    /\ Len(t) = Len(s)
    /\ \A i \in 1..Len(s) : Occurrences(t, s[i]) = Occurrences(s, s[i])

\* ----------------------------------------------------------------- claims
\* C1: whenever sort() has returned true (the sorter is Finished), to_sort,
\* the value get_result hands out, is non-decreasing and a permutation of the
\* input, whatever the budget and the build.
C1_FinishedIsSortedPermutation ==
    (state = "Finished" \/ ret = "true") =>
        /\ NonDecreasing(to_sort)
        /\ PermutationOf(to_sort, input)

\* C1 witness: an unsorted three-key input holding 0 was driven to Finished.
C1_Witness ==
    /\ input = <<2, 0, 1>>
    /\ state = "Finished"
    /\ ret = "true"
    /\ to_sort = <<0, 1, 2>>

\* C2: once prepared, repeated sort() calls reach Finished and no call on the
\* way aborts: a run that respects the call order never panics.
C2_NoCallAborts == failure \in {"none"} \cup UsageFailures

\* C3: a sort() call that returns returns true iff the state after it is
\* Finished; a call that leaves Counting, ComputeIndexes or MoveItems returns false.
C3_TrueIffFinished ==
    (call = "sort" /\ failure = "none") =>
        /\ ret \in {"true", "false"}
        /\ ret = "true" <=> state = "Finished"
        /\ state \in {"Counting", "ComputeIndexes", "MoveItems"} => ret = "false"

\* C3 witness: a sort() call returned true and left the sorter Finished.
C3_Witness == call = "sort" /\ failure = "none" /\ ret = "true" /\ state = "Finished"

\* Keys of the window of w elements starting at 0-based position from whose
\* bit d is 0.
BitOf(k, d) == IF d > 30 THEN 0 ELSE (k \div Pow2(d)) % 2

ZeroBitsInWindow(s, from, w, d) ==
    Cardinality({i \in (from + 1)..(from + w) : BitOf(s[i], d) = 0})

Changed(s, t) == Cardinality({i \in 1..Len(s) : s[i] # t[i]})

\* C4: a returning sort() call works in one phase only and within the budget:
\* Counting and ComputeIndexes scan exactly min(iterations_per_call,
\* n - loop_index) elements, MoveItems does at most iterations_per_call swaps.
C4_Returned == call' = "sort" /\ failure' = "none"

C4_Window == Min(iterations_per_call, Len(to_sort) - loop_index)

C4_CountingStep ==
    (C4_Returned /\ state = "Counting") =>
        /\ last_scanned' = C4_Window
        /\ accumulator' = accumulator
                            + ZeroBitsInWindow(to_sort, loop_index, C4_Window, digit_index)
        /\ \/ state' = "Counting" /\ loop_index' = loop_index + C4_Window
                                   /\ loop_index' < Len(to_sort)
           \/ state' = "ComputeIndexes" /\ loop_index + C4_Window = Len(to_sort)
        /\ UNCHANGED <<to_sort, new_indexes, digit_index>>

C4_ComputeIndexesStep ==
    (C4_Returned /\ state = "ComputeIndexes") =>
        /\ last_scanned' = C4_Window
        /\ Len(new_indexes') = Len(new_indexes) + C4_Window
        /\ \/ state' = "ComputeIndexes" /\ loop_index' = loop_index + C4_Window
                                         /\ loop_index' < Len(to_sort)
           \/ state' = "MoveItems" /\ loop_index + C4_Window = Len(to_sort)
        /\ UNCHANGED <<to_sort, accumulator, digit_index>>

C4_MoveItemsStep ==
    (C4_Returned /\ state = "MoveItems") =>
        /\ last_swaps' <= iterations_per_call
        /\ last_iters' <= iterations_per_call
        /\ Changed(to_sort, to_sort') <= 2 * iterations_per_call
        /\ state' = "MoveItems" =>
               /\ Len(new_indexes') = Len(new_indexes)
               /\ Changed(new_indexes, new_indexes') <= 2 * iterations_per_call
               /\ Changed(new_indexes, new_indexes') <= 2 * last_swaps'
        /\ state' \in {"MoveItems", "Counting", "Finished"}
        /\ Len(new_indexes') <= Len(new_indexes)
        /\ accumulator' \in {accumulator, 0}
        /\ UNCHANGED <<true_count, false_count>>

C4_BoundedWorkInOnePhase ==
    [][C4_CountingStep /\ C4_ComputeIndexesStep /\ C4_MoveItemsStep]_vars

\* C4 witness: a MoveItems call with budget 2 used its whole budget on swaps.
C4_Witness ==
    /\ call = "sort"
    /\ failure = "none"
    /\ last_phase = "MoveItems"
    /\ iterations_per_call = 2
    /\ last_swaps = 2

\* C5: prepare() in a state other than Unprepared, and sort() while Unprepared
\* or Finished, abort with the usage failure and change nothing.
C5_MisuseAborts ==
    /\ (call = "prepare" /\ last_phase # "Unprepared") =>
           failure = "usage" /\ state = last_phase
    /\ (call = "sort" /\ last_phase \in {"Unprepared", "Finished"}) =>
           failure = "usage" /\ state = last_phase

\* C5 witness: sort() was called on a Finished sorter and aborted.
C5_Witness ==
    /\ call = "sort"
    /\ last_phase = "Finished"
    /\ failure = "usage"
    /\ ret = "true"

\* C6: get_result() in a state other than Finished triggers the usage failure;
\* it never hands out a partially sorted sequence.
C6_ExtractOnlyWhenFinished ==
    /\ (call = "get_result" /\ last_phase # "Finished") => failure = "usage"
    /\ extracted => state = "Finished"

\* C7: on the empty input prepare() completes without failure and sets
\* max_digit_index = 0, and the sort() calls that follow do not fail.
C7_EmptyInputAccepted ==
    input = <<>> =>
        /\ failure \in {"none"} \cup UsageFailures
        /\ (call = "prepare" /\ last_phase = "Unprepared") =>
               state # "Unprepared" /\ max_digit_index = 0

\* C8: a sequence of equal keys (0 included) is driven to Finished, in every
\* build and with every budget, and is left equal to the input.
AllIdentical(s) == Len(s) >= 1 /\ \A i \in 1..Len(s) : s[i] = s[1]

C8_AllIdenticalFinishes ==
    AllIdentical(input) =>
        /\ failure \in {"none"} \cup UsageFailures
        /\ to_sort = input

\* The keys' low d bits.
LowBits(k, d) == IF d > 30 THEN k ELSE k % Pow2(d)

Permutations(n) ==
    {p \in [1..n -> 1..n] : \A i \in 1..n, j \in 1..n : i # j => p[i] # p[j]}

\* t is s stably sorted by the low d bits: t[i] is s[p[i]] for a permutation p
\* that orders the low bits and keeps keys with equal low bits in s's order.
StableSortedByLowBits(t, s, d) ==
    /\ Len(t) = Len(s)
    /\ \E p \in Permutations(Len(s)) :
          /\ \A i \in 1..Len(s) : t[i] = s[p[i]]
          /\ \A i \in 1..Len(s), j \in 1..Len(s) :
                i < j =>
                    /\ LowBits(t[i], d) <= LowBits(t[j], d)
                    /\ LowBits(t[i], d) = LowBits(t[j], d) => p[i] < p[j]

\* C9: at the start of every Counting phase to_sort is the stable sort of the
\* input by the low digit_index bits.
C9_StableByLowBitsAtCounting ==
    (state = "Counting" /\ loop_index = 0) =>
        StableSortedByLowBits(to_sort, input, digit_index)

\* C9 witness: the second pass over <<2, 1, 0>> starts from its stable sort by bit 0.
C9_Witness ==
    /\ input = <<2, 1, 0>>
    /\ state = "Counting"
    /\ loop_index = 0
    /\ digit_index = 1
    /\ to_sort = <<2, 0, 1>>

\* The keys of s whose bit d is b, in s's order.
RECURSIVE KeysWithBit(_, _, _)
KeysWithBit(s, d, b) ==
    IF s = <<>> THEN <<>>
    ELSE IF BitOf(Head(s), d) = b
         THEN <<Head(s)>> \o KeysWithBit(Tail(s), d, b)
         ELSE KeysWithBit(Tail(s), d, b)

\* C10: when the MoveItems phase of a pass completes, to_sort holds the keys
\* of the pass's start whose bit digit_index is 0, then those whose bit is 1,
\* each group in its order at the start of the pass; the key that was at
\* position i sits at the index ComputeIndexes assigned to i.
C10_PassCompletes == state = "MoveItems" /\ state' # "MoveItems" /\ failure' = "none"

C10_PassIsStablePartition ==
    [][C10_PassCompletes =>
          /\ to_sort' = KeysWithBit(pass_start, digit_index, 0)
                          \o KeysWithBit(pass_start, digit_index, 1)
          /\ Len(assigned) = Len(pass_start)
          /\ \A i \in 1..Len(pass_start) : to_sort'[assigned[i] + 1] = pass_start[i]]_vars

\* C10 witness: the first pass over <<1, 2, 0>> completed and left <<2, 0, 1>>.
C10_Witness ==
    /\ input = <<1, 2, 0>>
    /\ call = "sort"
    /\ last_phase = "MoveItems"
    /\ state = "Counting"
    /\ digit_index = 1
    /\ to_sort = <<2, 0, 1>>

\* The states in which sort() does work.
SortingStates == {"Counting", "ComputeIndexes", "MoveItems"}

\* ni holds every index 0..n-1 exactly once.
IsIndexPermutation(ni, n) ==
    /\ Len(ni) = n
    /\ \A k \in 0..(n - 1) : Cardinality({i \in 1..n : ni[i] = k}) = 1

\* C11: whenever the sorter is in MoveItems, new_indexes has the length of
\* to_sort and is a permutation of 0..n-1, on entry and after every swap.
C11_TargetsArePermutation ==
    state = "MoveItems" => IsIndexPermutation(new_indexes, Len(to_sort))

\* C11 witness: MoveItems over three keys, after a swap changed the table.
C11_Witness ==
    /\ state = "MoveItems"
    /\ Len(to_sort) = 3
    /\ pass_swaps >= 1
    /\ new_indexes # assigned

\* C12: prepare() sets max_digit_index to the key width minus the fewest
\* leading zeros, exactly max_digit_index passes run before sort() returns
\* true, and no pass runs on a bit position at or above max_digit_index.
C12_PassesBelowMaxDigit ==
    /\ state # "Unprepared" =>
           max_digit_index = total_bits - fewest_leading_zeros(input)
    /\ state \in SortingStates => digit_index < max_digit_index
    /\ state = "Finished" => digit_index = max_digit_index

\* C13: digit_index never exceeds max_digit_index.
C13_DigitWithinMax == digit_index <= max_digit_index

\* C14: no arithmetic overflows: no call panics on an overflow or an index
\* out of bounds, the shift of get_bit stays within the key width and
\* digit_index within its 8 bits, and the cursor stays within the sequence.
C14_NoOverflow ==
    /\ failure \notin {"shift_overflow", "add_overflow", "index_out_of_bounds"}
    /\ state \in SortingStates =>
           /\ digit_index < total_bits
           /\ digit_index + 1 < u8_range
           /\ loop_index < Len(to_sort)
           /\ accumulator <= Len(to_sort)
           /\ true_count <= Len(to_sort)
           /\ false_count <= Len(to_sort)

\* C15 as claimed: in MoveItems a cursor advance uses none of the call's
\* budget, which counts swaps only; so a call that returns with the pass
\* unfinished has done iterations_per_call swaps.
C15_AdvanceIsFree ==
    (call = "sort" /\ failure = "none" /\ last_phase = "MoveItems"
        /\ state = "MoveItems") =>
        last_swaps = iterations_per_call

\* C15 as amended: every loop iteration of a MoveItems call, a cursor advance
\* as much as a swap, uses one unit of the budget: advances plus swaps are at
\* most iterations_per_call, and exactly that when the pass is left unfinished.
C15_MoveReturned == call' = "sort" /\ failure' = "none" /\ state = "MoveItems"

C15_AdvanceUsesBudget ==
    [][C15_MoveReturned =>
          LET advances == pass_advances' - pass_advances
          IN  /\ advances >= 0
              /\ last_swaps' + advances = last_iters'
              /\ last_swaps' + advances <= iterations_per_call
              /\ state' = "MoveItems" =>
                     /\ advances = loop_index' - loop_index
                     /\ last_swaps' + advances = iterations_per_call
              /\ state' # "MoveItems" => loop_index + advances = Len(to_sort)]_vars

\* C15 witness: a MoveItems call with budget 3 advanced the cursor twice and
\* had one swap left to do.
C15_Witness ==
    /\ call = "sort"
    /\ failure = "none"
    /\ last_phase = "MoveItems"
    /\ state = "MoveItems"
    /\ iterations_per_call = 3
    /\ last_iters = 3
    /\ last_swaps = 1

\* The positions of ni that hold their own index: the elements in place.
PlacedPositions(ni) == {i \in 1..Len(ni) : ni[i] = i - 1}

\* C16: the MoveItems phase of every pass terminates: every call makes
\* progress, every swap of two distinct positions puts at least one more
\* element at its target index and displaces none already placed, and a pass
\* does at most n - 1 such swaps and exactly n cursor advances.
C16_MoveReturned == call' = "sort" /\ failure' = "none" /\ state = "MoveItems"

C16_MoveItemsTerminates ==
    [][C16_MoveReturned =>
          /\ pass_swaps' + pass_advances' > pass_swaps + pass_advances
          /\ pass_swaps' <= Len(to_sort) - 1
          /\ pass_advances' <= Len(to_sort)
          /\ state' # "Counting" =>
                 /\ PlacedPositions(new_indexes) \subseteq PlacedPositions(new_indexes')
                 /\ Cardinality(PlacedPositions(new_indexes'))
                        >= Cardinality(PlacedPositions(new_indexes)) + last_swaps'
          /\ state' = "MoveItems" =>
                 /\ pass_advances' = loop_index'
                 /\ loop_index' < Len(to_sort)
          /\ state' # "MoveItems" => pass_advances' = Len(to_sort)]_vars

\* C16 witness: a pass over three keys completed after two swaps (one cycle of
\* length three) and three cursor advances.
C16_Witness ==
    /\ call = "sort"
    /\ failure = "none"
    /\ last_phase = "MoveItems"
    /\ state # "MoveItems"
    /\ Len(to_sort) = 3
    /\ pass_swaps = 2
    /\ pass_advances = 3

\* C17: in ComputeIndexes and MoveItems false_count <= accumulator; a key with
\* the digit bit clear that is next to get its index finds
\* false_count < accumulator (the debug assertion never fails); when
\* ComputeIndexes has completed, false_count = accumulator and true_count = n.
C17_FalseCountWithinAccumulator ==
    /\ failure # "debug_assert"
    /\ state \in {"ComputeIndexes", "MoveItems"} => false_count <= accumulator
    /\ (state = "ComputeIndexes" /\ loop_index < Len(to_sort)
            /\ BitOf(to_sort[loop_index + 1], digit_index) = 0) =>
           false_count < accumulator
    /\ state = "MoveItems" =>
           /\ false_count = accumulator
           /\ true_count = Len(to_sort)

\* C17 witness: ComputeIndexes completed over three keys, two of them with the
\* digit bit clear.
C17_Witness ==
    /\ state = "MoveItems"
    /\ loop_index = 0
    /\ pass_swaps = 0
    /\ Len(to_sort) = 3
    /\ accumulator = 2
    /\ false_count = 2
    /\ true_count = 3

\* The phase changes the claim allows, each with the call that makes it.
PhaseEdges ==
    {<<"Unprepared", "Counting", "prepare">>,
     <<"Counting", "ComputeIndexes", "sort">>,
     <<"ComputeIndexes", "MoveItems", "sort">>,
     <<"MoveItems", "Counting", "sort">>,
     <<"MoveItems", "Finished", "sort">>}

\* C18: the phase changes only along Unprepared -> Counting (prepare),
\* Counting -> ComputeIndexes, ComputeIndexes -> MoveItems, MoveItems ->
\* Counting and MoveItems -> Finished (sort); Finished is never left;
\* digit_index grows by exactly 1 on each exit from MoveItems and changes at
\* no other time.
C18_LeavesMoveItems == state = "MoveItems" /\ state' # "MoveItems"

C18_PhaseOrder ==
    [][/\ state' # state => <<state, state', call'>> \in PhaseEdges
       /\ state = "Finished" => state' = "Finished"
       /\ C18_LeavesMoveItems => digit_index' = digit_index + 1
       /\ ~C18_LeavesMoveItems => digit_index' = digit_index]_vars

\* C19: in every reachable state to_sort is a permutation of the input: no
\* key is lost, duplicated or altered, wherever the sorter is abandoned.
C19_AlwaysPermutation == PermutationOf(to_sort, input)

\* C19 witness: the sorter stands in the middle of a MoveItems phase, one swap
\* done, with to_sort no longer in the input's order.
C19_Witness ==
    /\ state = "MoveItems"
    /\ Len(to_sort) = 3
    /\ pass_swaps = 1
    /\ loop_index = 0
    /\ to_sort # input

\* The index a stable partition on bit d gives to the key at position i of s
\* (1-based position, 0-based index).
StableTarget(s, i, d) ==
    IF BitOf(s[i], d) = 0
    THEN Cardinality({j \in 1..(i - 1) : BitOf(s[j], d) = 0})
    ELSE Cardinality({j \in 1..Len(s) : BitOf(s[j], d) = 0})
            + Cardinality({j \in 1..(i - 1) : BitOf(s[j], d) = 1})

\* C20: prepare() and the sort() calls made in Counting or ComputeIndexes
\* leave to_sort unchanged, only sort() calls in MoveItems modify it; so when
\* MoveItems begins the accumulator and new_indexes describe to_sort as it
\* then stands.
C20_OnlyMoveItemsWrites ==
    [][/\ to_sort' # to_sort => (state = "MoveItems" /\ call' = "sort")
       /\ (state = "ComputeIndexes" /\ state' = "MoveItems") =>
              /\ to_sort' = pass_start
              /\ accumulator' = Cardinality({j \in 1..Len(to_sort') :
                                                BitOf(to_sort'[j], digit_index') = 0})
              /\ Len(new_indexes') = Len(to_sort')
              /\ \A i \in 1..Len(to_sort') :
                    new_indexes'[i] = StableTarget(to_sort', i, digit_index')]_vars

\* C20 witness: the second pass over <<1, 2, 0>> enters MoveItems with to_sort
\* as the first pass left it and the targets computed from it.
C20_Witness ==
    /\ input = <<1, 2, 0>>
    /\ call = "sort"
    /\ last_phase = "ComputeIndexes"
    /\ state = "MoveItems"
    /\ digit_index = 1
    /\ to_sort = <<2, 0, 1>>
    /\ new_indexes = <<2, 0, 1>>

====
